---- MODULE Spec2Model ----
(***************************************************************************)
(* chat-transformer: conversion of tree-shaped ChatGPT exports and flat    *)
(* Claude exports into linear conversations, the worker pool that applies  *)
(* the conversion to a batch, and the index built from the results.        *)
(*                                                                         *)
(* A Go string is a sequence of one-character strings; a few literals the  *)
(* code inserts ("[Empty message]", "Conversation-") are kept as one atom. *)
(***************************************************************************)
EXTENDS Integers, Sequences, FiniteSets, TLC

\* ------------------------------------------------------------------ bounds
\* Largest create_time of a message, in half seconds (1.5 s is 3).
MaxCreateTime == 4
\* Longest child list of a node.
MaxChildren == 2
\* Most parts of a message content in the study of contents.
MaxParts == 2

\* Node identifiers of the exports that are enumerated.
NodeIDs == {"A", "B", "C"}
\* A non-empty identifier that is no key of any mapping.
Dangling == "Z"
CreateTimes == 2..MaxCreateTime
NoMessage == [none |-> TRUE]

\* Most elements of a parts list in the study of convertRawMessage.
MaxElems == 2

\* Most conversations of the Claude export and most records of the ChatGPT
\* export in the study of a whole run.
MaxClaude == 1
MaxRecords == 1

\* Most records of the ChatGPT export in the study of the worker pool.
MaxJobs == 3

\* Most conversations recorded in the Indexer in the study of its timeline.
MaxListing == 3

VARIABLES
    pc,        \* position of the run that applies a conversion
    chatgpt,   \* the models.ChatGPTConversation under conversion
    conv,      \* the models.Conversation returned, with the traversal's trace
    rawMsg,    \* the models.ChatGPTMessageRaw given to convertRawMessage
    message,   \* what convertRawMessage returned: message and error
    \* Processor.Run
    claudeBatch,  \* decoded claude conversations.json
    rawBatch,     \* decoded ChatGPT conversations.json
    streaming,    \* the ChatGPT file is larger than 100 MB
    workerLimit,  \* the limit on the number of conversationWorker goroutines
    jobChanCap,   \* the capacity of jobChan
    mainPc,       \* position of the goroutine that runs Processor.Run
    next,         \* index of the next element of the loop mainPc is in
    jobChan,      \* job indexes buffered in jobChan
    jobClosed,    \* close(jobChan) has happened
    workers,      \* per conversationWorker: position, job, converted record, err
    mutex,        \* the worker inside idx.mutex, 0 when it is free
    resultChan,   \* errors buffered in resultChan
    progressChan, \* signals buffered in progressChan, and whether it is closed
    reporter,     \* progressReporter: position and processed
    index,        \* Indexer: conversations and topics
    files,        \* conversation files on disk, by path
    stats,        \* ProcessingStats of the Claude and of the ChatGPT pass
    tally,        \* successCount and errors of processConversationsParallel
    chatgptErr,   \* what ParseConversations returned, "pending" before
    timeline,     \* unified/timeline.json
    crashed,      \* a panic has ended the process
    outcome       \* per ChatGPT record: what happened to it

\* What no step of a run changes: the export and the sizes of the pool.
inputVars == <<claudeBatch, rawBatch, streaming, workerLimit, jobChanCap>>

runVars == <<inputVars, mainPc, next, jobChan, jobClosed, workers, mutex, resultChan,
             progressChan, reporter, index, files, stats, tally, chatgptErr, timeline,
             crashed, outcome>>

vars == <<pc, chatgpt, conv, rawMsg, message, runVars>>

\* Value of a variable that the conversion under study does not use.
Unused == [unused |-> TRUE]
linVars == <<chatgpt, conv>>
normVars == <<rawMsg, message>>
LinUnused == chatgpt = Unused /\ conv = Unused
NormUnused == rawMsg = Unused /\ message = Unused
RunUnused ==
    /\ claudeBatch = Unused /\ rawBatch = Unused /\ streaming = Unused /\ mainPc = Unused
    /\ next = Unused /\ jobChan = Unused /\ jobClosed = Unused /\ workers = Unused
    /\ resultChan = Unused /\ progressChan = Unused /\ reporter = Unused /\ index = Unused
    /\ files = Unused /\ stats = Unused /\ tally = Unused /\ timeline = Unused
    /\ crashed = Unused /\ outcome = Unused
    /\ workerLimit = Unused /\ jobChanCap = Unused /\ mutex = Unused /\ chatgptErr = Unused

\* ----------------------------------------------------------- Go strings
WhiteSpace == {" ", "\t", "\n", "\r"}

RECURSIVE TrimLeft(_)
TrimLeft(s) ==
    IF s = <<>> THEN s
    ELSE IF Head(s) \in WhiteSpace THEN TrimLeft(Tail(s)) ELSE s

RECURSIVE TrimRight(_)
TrimRight(s) ==
    IF s = <<>> THEN s
    ELSE IF s[Len(s)] \in WhiteSpace THEN TrimRight(SubSeq(s, 1, Len(s) - 1))
         ELSE s

\* strings.TrimSpace
TrimSpace(s) == TrimRight(TrimLeft(s))

\* strings.Contains
Contains(s, sub) ==
    \E i \in 0..(Len(s) - Len(sub)) : SubSeq(s, i + 1, i + Len(sub)) = sub

UpperCase == <<"A", "B", "C", "D", "E", "F", "G", "H", "I", "J", "K", "L", "M",
               "N", "O", "P", "Q", "R", "S", "T", "U", "V", "W", "X", "Y", "Z">>
LowerCase == <<"a", "b", "c", "d", "e", "f", "g", "h", "i", "j", "k", "l", "m",
               "n", "o", "p", "q", "r", "s", "t", "u", "v", "w", "x", "y", "z">>

\* unicode.ToLower on the letters of the model's alphabet.
LowerOf == [c \in {UpperCase[n] : n \in DOMAIN UpperCase} |->
               LowerCase[CHOOSE n \in DOMAIN UpperCase : UpperCase[n] = c]]

\* strings.ToLower
ToLower(s) == [i \in DOMAIN s |-> IF s[i] \in DOMAIN LowerOf THEN LowerOf[s[i]] ELSE s[i]]

\* The literal the converter substitutes for empty content.
EmptyMessage == <<"[Empty message]">>

\* -------------------------------------------------- ConvertChatGPTToStandard
\* time.Unix(int64(createTime), 0): the fraction of a second is cut off.
MsgTime(createTime) == createTime \div 2

\* A slice that is nil; ranging over it visits nothing, appending to it
\* gives a slice that is not nil.
NilSlice == [nil |-> TRUE, elems |-> <<>>]
Slice(elems) == [nil |-> FALSE, elems |-> elems]
Elems(slice) == slice.elems
AppendSlice(slice, x) == Slice(Append(slice.elems, x))

\* The strings.Builder loop: every part followed by one space.
RECURSIVE JoinParts(_)
JoinParts(parts) ==
    IF parts = <<>> THEN <<>>
    ELSE Head(parts) \o <<" ">> \o JoinParts(Tail(parts))

\* ContentText without the substitution for empty content.
ContentTextBare(parts) == TrimSpace(JoinParts(Elems(parts)))

ContentText(parts) ==
    LET contentText == TrimSpace(JoinParts(Elems(parts)))
    IN  IF contentText = <<>> THEN EmptyMessage ELSE contentText

NewMessage(msg) ==
    [ID |-> msg.ID, Content |-> ContentText(msg.Parts),
     Timestamp |-> MsgTime(msg.CreateTime)]

\* The state the closure extractMessages works on: visitedNodes and messages
\* of the enclosing function, with the number of calls made so far and the
\* identifiers the enclosing function called it with.
NewTraversal == [visitedNodes |-> {}, messages |-> <<>>, calls |-> 0, starts |-> <<>>]

RECURSIVE extractMessages(_, _, _)
RECURSIVE extractChildren(_, _, _)
extractChildren(mapping, children, st) ==
    IF children = <<>> THEN st
    ELSE extractChildren(mapping, Tail(children),
                         extractMessages(mapping, Head(children), st))

\* extractMessages returning at a node without a message before its children
\* are visited.
extractMessagesPrunes(mapping, nodeID, st0) ==
    LET st == [st0 EXCEPT !.calls = @ + 1]
    IN  IF nodeID = "" \/ nodeID \in st.visitedNodes THEN st
        ELSE LET st1 == [st EXCEPT !.visitedNodes = @ \cup {nodeID}]
             IN  IF nodeID \notin DOMAIN mapping \/ mapping[nodeID].Message = NoMessage
                 THEN st1
                 ELSE LET node == mapping[nodeID]
                          st2 == extractChildren(mapping, node.Children, st1)
                      IN  [st2 EXCEPT !.messages = Append(@, NewMessage(node.Message))]

\* extractMessages with the visited test guarding the descent only.
extractMessagesRevisits(mapping, nodeID, st0) ==
    LET st == [st0 EXCEPT !.calls = @ + 1]
    IN  IF nodeID = "" THEN st
        ELSE LET st1 == [st EXCEPT !.visitedNodes = @ \cup {nodeID}]
             IN  IF nodeID \notin DOMAIN mapping THEN st1
                 ELSE LET node == mapping[nodeID]
                          st2 == IF nodeID \in st.visitedNodes THEN st
                                 ELSE extractChildren(mapping, node.Children, st1)
                      IN  IF node.Message = NoMessage THEN st2
                          ELSE [st2 EXCEPT !.messages =
                                    Append(@, NewMessage(node.Message))]

\* extractMessages appending the node's own message before its children
\* are visited.
extractMessagesParentFirst(mapping, nodeID, st0) ==
    LET st == [st0 EXCEPT !.calls = @ + 1]
    IN  IF nodeID = "" \/ nodeID \in st.visitedNodes THEN st
        ELSE LET st1 == [st EXCEPT !.visitedNodes = @ \cup {nodeID}]
             IN  IF nodeID \notin DOMAIN mapping THEN st1
                 ELSE LET node == mapping[nodeID]
                          st2 == IF node.Message = NoMessage THEN st1
                                 ELSE [st1 EXCEPT !.messages =
                                          Append(@, NewMessage(node.Message))]
                      IN  extractChildren(mapping, node.Children, st2)

extractMessages(mapping, nodeID, st0) ==
    LET st == [st0 EXCEPT !.calls = @ + 1]
    IN  IF nodeID = "" \/ nodeID \in st.visitedNodes THEN st
        ELSE LET st1 == [st EXCEPT !.visitedNodes = @ \cup {nodeID}]
             IN  IF nodeID \notin DOMAIN mapping THEN st1
                 ELSE LET node == mapping[nodeID]
                          st2 == extractChildren(mapping, node.Children, st1)
                      IN  IF node.Message = NoMessage THEN st2
                          ELSE [st2 EXCEPT !.messages =
                                    Append(@, NewMessage(node.Message))]

\* A call of extractMessages by the enclosing function.
StartAt(mapping, nodeID, st) ==
    extractMessages(mapping, nodeID, [st EXCEPT !.starts = Append(@, nodeID)])

\* The orders in which a range loop may enumerate the keys of a map.
RangeOrders(S) ==
    {o \in [1..Cardinality(S) -> S] : \A i, j \in DOMAIN o : o[i] = o[j] => i = j}

\* The loop over the mapping that starts a traversal at every parentless node.
RECURSIVE extractRoots(_, _, _)
extractRoots(mapping, order, st) ==
    IF order = <<>> THEN st
    ELSE LET nodeID == Head(order)
         IN  extractRoots(mapping, Tail(order),
                 IF mapping[nodeID].Parent = ""
                 THEN StartAt(mapping, nodeID, st) ELSE st)

\* The last-resort loop: the first enumerated node with a message that was
\* not visited, if there is one.
RECURSIVE extractAnyNode(_, _, _)
extractAnyNode(mapping, order, st) ==
    IF order = <<>> THEN st
    ELSE LET nodeID == Head(order)
         IN  IF mapping[nodeID].Message # NoMessage /\ nodeID \notin st.visitedNodes
             THEN StartAt(mapping, nodeID, st)
             ELSE extractAnyNode(mapping, Tail(order), st)

RootNodes(mapping) == {k \in DOMAIN mapping : mapping[k].Parent = ""}

\* Traverse with a fallback that never consults the current-node pointer.
TraverseAnyNode(c, order1, order2) ==
    LET st == extractRoots(c.Mapping, order1, NewTraversal)
    IN  IF Cardinality(RootNodes(c.Mapping)) = 0
        THEN extractAnyNode(c.Mapping, order2, st)
        ELSE st

\* Root selection and the fallback when no root exists.
Traverse(c, order1, order2) ==
    LET st == extractRoots(c.Mapping, order1, NewTraversal)
    IN  IF Cardinality(RootNodes(c.Mapping)) = 0
        THEN IF c.CurrentNode # ""
             THEN StartAt(c.Mapping, c.CurrentNode, st)
             ELSE extractAnyNode(c.Mapping, order2, st)
        ELSE st

\* Timestamp.After
After(t, u) == t > u

Swap(s, i, j) == [s EXCEPT ![i] = s[j], ![j] = s[i]]

\* The two nested loops that order the messages: position i is compared
\* with every later position j and exchanged when it is later in time.
RECURSIVE SortInner(_, _, _)
SortInner(s, i, j) ==
    IF j > Len(s) THEN s
    ELSE SortInner(IF After(s[i].Timestamp, s[j].Timestamp) THEN Swap(s, i, j) ELSE s,
                   i, j + 1)

RECURSIVE SortOuter(_, _)
SortOuter(s, i) ==
    IF i > Len(s) - 1 THEN s
    ELSE SortOuter(SortInner(s, i, i + 1), i + 1)

SortMessages(s) == SortOuter(s, 1)

programmingKeywords ==
    <<[topic |-> "python", text |-> <<"p", "y", "t", "h", "o", "n">>],
      [topic |-> "javascript", text |-> <<"j", "a", "v", "a", "s", "c", "r", "i", "p", "t">>],
      [topic |-> "go", text |-> <<"g", "o">>],
      [topic |-> "golang", text |-> <<"g", "o", "l", "a", "n", "g">>],
      [topic |-> "react", text |-> <<"r", "e", "a", "c", "t">>],
      [topic |-> "node", text |-> <<"n", "o", "d", "e">>],
      [topic |-> "api", text |-> <<"a", "p", "i">>],
      [topic |-> "database", text |-> <<"d", "a", "t", "a", "b", "a", "s", "e">>],
      [topic |-> "sql", text |-> <<"s", "q", "l">>],
      [topic |-> "web", text |-> <<"w", "e", "b">>],
      [topic |-> "frontend", text |-> <<"f", "r", "o", "n", "t", "e", "n", "d">>],
      [topic |-> "backend", text |-> <<"b", "a", "c", "k", "e", "n", "d">>],
      [topic |-> "code", text |-> <<"c", "o", "d", "e">>],
      [topic |-> "programming", text |-> <<"p", "r", "o", "g", "r", "a", "m", "m", "i", "n", "g">>],
      [topic |-> "debug", text |-> <<"d", "e", "b", "u", "g">>],
      [topic |-> "error", text |-> <<"e", "r", "r", "o", "r">>],
      [topic |-> "function", text |-> <<"f", "u", "n", "c", "t", "i", "o", "n">>],
      [topic |-> "class", text |-> <<"c", "l", "a", "s", "s">>],
      [topic |-> "algorithm", text |-> <<"a", "l", "g", "o", "r", "i", "t", "h", "m">>],
      [topic |-> "data", text |-> <<"d", "a", "t", "a">>],
      [topic |-> "structure", text |-> <<"s", "t", "r", "u", "c", "t", "u", "r", "e">>]>>

KeywordTopics(titleLower) ==
    LET found == SelectSeq(programmingKeywords, LAMBDA k : Contains(titleLower, k.text))
    IN  [i \in DOMAIN found |-> found[i].topic]

extractTopics(title) ==
    LET titleLower == ToLower(title)
        topics == KeywordTopics(titleLower)
    IN  IF Len(topics) = 0
        THEN IF \/ Contains(titleLower, <<"h", "e", "l", "p">>)
                \/ Contains(titleLower, <<"q", "u", "e", "s", "t", "i", "o", "n">>)
             THEN <<"help">> ELSE <<"general">>
        ELSE topics

\* The whole function; traversal, visited, calls and starts record how the
\* result was obtained.
ConvertChatGPTToStandard(c, order1, order2) ==
    LET st == Traverse(c, order1, order2)
        messages == SortMessages(st.messages)
    IN  [Metadata |-> [ID |-> c.ID, Title |-> c.Title, Platform |-> "chatgpt",
                       Project |-> <<>>,
                       CreatedDate |-> MsgTime(c.CreateTime),
                       MessageCount |-> Len(messages),
                       Topics |-> extractTopics(c.Title),
                       FilePath |-> <<>>],
         Messages |-> messages,
         traversal |-> st.messages,
         visited |-> st.visitedNodes,
         calls |-> st.calls,
         starts |-> st.starts]

\* ------------------------------------------------------------------ inputs
\* Child lists of node k: identifiers of other nodes, without repetition, at
\* most MaxChildren of them.
ChildLists(ids, k) ==
    UNION {{s \in [1..n -> ids \ {k}] : \A i, j \in 1..n : s[i] = s[j] => i = j} :
           n \in 0..MaxChildren}

Listers(children, k) ==
    {p \in DOMAIN children : \E i \in DOMAIN children[p] : children[p][i] = k}

\* The converter reads a node's parent only to test it for emptiness, so a
\* non-empty parent is a node listing the node as a child, or, when no node
\* lists it, an identifier that names no node.
ParentChoices(children, k) ==
    {""} \cup (IF Listers(children, k) = {} THEN {Dangling} ELSE Listers(children, k))

\* create_time 0 stands for a node without a message.
MessageOf(k, createTime, parts) ==
    IF createTime = 0 THEN NoMessage
    ELSE [ID |-> k, CreateTime |-> createTime, Parts |-> parts]

\* The current-node pointer is read only when the mapping has no root.
CurrentNodeChoices(parents, ids) ==
    IF \E k \in DOMAIN parents : parents[k] = "" THEN {""} ELSE {""} \cup ids

OnePart == {Slice(<< <<"a">> >>)}

\* A conversation over the given keys; identifiers outside keys dangle.
IsInput(c, keys, ids, createTimes, partsSet) ==
    \E ch \in [keys -> UNION {ChildLists(ids, k) : k \in keys}] :
      /\ \A k \in keys : k \notin {ch[k][i] : i \in DOMAIN ch[k]}
      /\ \E par \in [keys -> {""} \cup ids \cup {Dangling}] :
           /\ \A k \in keys : par[k] \in ParentChoices(ch, k)
           /\ \E ct \in [keys -> {0} \cup createTimes] :
                \E parts \in [keys -> partsSet] :
                  \E cur \in CurrentNodeChoices(par, ids) :
                    c = [ID |-> <<"i", "d">>, Title |-> <<"t">>, CreateTime |-> 2,
                         Mapping |-> [k \in keys |->
                                        [Parent |-> par[k], Children |-> ch[k],
                                         Message |-> MessageOf(k, ct[k], parts[k])]],
                         CurrentNode |-> cur]

Init ==
    /\ pc = "input"
    /\ \E keys \in SUBSET NodeIDs : IsInput(chatgpt, keys, NodeIDs, CreateTimes, OnePart)
    /\ conv = Unused
    /\ NormUnused
    /\ RunUnused

Convert ==
    /\ pc = "input"
    /\ \E order1 \in RangeOrders(DOMAIN chatgpt.Mapping) :
         \E order2 \in (IF RootNodes(chatgpt.Mapping) = {} /\ chatgpt.CurrentNode = ""
                        THEN RangeOrders(DOMAIN chatgpt.Mapping) ELSE {order1}) :
           conv' = ConvertChatGPTToStandard(chatgpt, order1, order2)
    /\ pc' = "converted"
    /\ UNCHANGED <<chatgpt, normVars, runVars>>

Next == Convert

Spec == Init /\ [][Next]_vars

\* ----------------------------------------------------- content of messages
\* Conversations of at most two nodes, all messages created at the same
\* time, with every content of at most MaxParts parts drawn from PartStrings.
PartStrings == {<<>>, <<" ">>, <<"a">>, <<"\n", "a", " ">>}
PartsSet ==
    {NilSlice} \cup {Slice(p) : p \in UNION {[1..n -> PartStrings] : n \in 0..MaxParts}}
ContentNodeIDs == {"A", "B"}

InitContent ==
    /\ pc = "input"
    /\ \E keys \in SUBSET ContentNodeIDs : IsInput(chatgpt, keys, ContentNodeIDs, {2}, PartsSet)
    /\ conv = Unused
    /\ NormUnused
    /\ RunUnused

SpecContent == InitContent /\ [][Next]_vars

\* ---------------------------------------------------------- convertRawMessage
\* A decoded JSON value (interface{}): string, number, bool, null, array or
\* object; a number or bool carries the text fmt prints for it. "strings" is
\* a []string, for which the function has a case of its own.
StrVal(s) == [kind |-> "string", val |-> s]
NumVal(text) == [kind |-> "number", val |-> text]
BoolVal(text) == [kind |-> "bool", val |-> text]
NullVal == [kind |-> "null"]
ArrayVal(elems) == [kind |-> "array", val |-> elems]
ObjectVal(fields) == [kind |-> "object", val |-> fields]
StringsVal(strs) == [kind |-> "strings", val |-> strs]

\* Field names of the objects enumerated, in the sorted order fmt prints.
ObjectKeys == <<"text", "url">>

RECURSIVE FormatV(_)
RECURSIVE FormatList(_, _)
RECURSIVE FormatFields(_, _, _)
\* Elements separated by one space.
FormatList(elems, i) ==
    IF i > Len(elems) THEN <<>>
    ELSE (IF i > 1 THEN <<" ">> ELSE <<>>) \o FormatV(elems[i]) \o FormatList(elems, i + 1)

\* key:value pairs in key order, separated by one space.
FormatFields(fields, i, first) ==
    IF i > Len(ObjectKeys) THEN <<>>
    ELSE IF ObjectKeys[i] \in DOMAIN fields
         THEN (IF first THEN <<>> ELSE <<" ">>) \o <<ObjectKeys[i], ":">>
                  \o FormatV(fields[ObjectKeys[i]]) \o FormatFields(fields, i + 1, FALSE)
         ELSE FormatFields(fields, i + 1, first)

\* fmt.Sprintf("%v", v)
FormatV(v) ==
    CASE v.kind = "string" -> v.val
      [] v.kind = "number" -> v.val
      [] v.kind = "bool" -> v.val
      [] v.kind = "null" -> <<"<nil>">>
      [] v.kind = "array" -> <<"[">> \o FormatList(v.val, 1) \o <<"]">>
      [] v.kind = "strings" -> <<"[">> \o FormatList([i \in DOMAIN v.val |-> StrVal(v.val[i])], 1) \o <<"]">>
      [] v.kind = "object" -> <<"map[">> \o FormatFields(v.val, 1, TRUE) \o <<"]">>

\* One step of the loop over the elements of a []interface{}.
ConvertPart(part) ==
    CASE part.kind = "string" -> part.val
      [] part.kind = "object" ->
            IF "text" \in DOMAIN part.val /\ part.val["text"].kind = "string"
            THEN part.val["text"].val
            ELSE <<"[Object: ">> \o FormatV(part) \o <<"]">>
      [] OTHER -> FormatV(part)

\* The loop with an element test added: empty strings are not appended.
RECURSIVE ConvertPartsSkipsEmpty(_, _)
ConvertPartsSkipsEmpty(elems, parts) ==
    IF elems = <<>> THEN parts
    ELSE ConvertPartsSkipsEmpty(Tail(elems),
             IF ConvertPart(Head(elems)) = <<>> THEN parts
             ELSE AppendSlice(parts, ConvertPart(Head(elems))))

RECURSIVE ConvertParts(_, _)
ConvertParts(elems, parts) ==
    IF elems = <<>> THEN parts
    ELSE ConvertParts(Tail(elems), AppendSlice(parts, ConvertPart(Head(elems))))

\* The type switch on raw.Content.Parts; content.Parts starts out nil.
ConvertRawParts(v) ==
    CASE v.kind = "array" -> ConvertParts(v.val, NilSlice)
      [] v.kind = "strings" -> Slice(v.val)
      [] v.kind = "string" -> Slice(<<v.val>>)
      [] OTHER -> Slice(<<FormatV(v)>>)

NoError == "nil"

convertRawMessage(raw) ==
    [message |-> [ID |-> raw.ID, CreateTime |-> raw.CreateTime,
                  Parts |-> ConvertRawParts(raw.Parts)],
     err |-> NoError]

\* Values that occur as elements of a parts array.
PartElements ==
    {StrVal(<<>>), StrVal(<<"a">>),
     ObjectVal([text |-> StrVal(<<"b">>)]),
     ObjectVal([text |-> NumVal(<<"7">>)]),
     ObjectVal([url |-> StrVal(<<"u">>)]),
     ObjectVal([text |-> StrVal(<<"b">>), url |-> StrVal(<<"u">>)]),
     ObjectVal(<<>>),
     NumVal(<<"7">>), BoolVal(<<"true">>), NullVal, ArrayVal(<<>>),
     ArrayVal(<<StrVal(<<"a">>), NumVal(<<"7">>)>>)}

\* The shapes of the parts field: array of mixed values, list of strings,
\* single string, bare scalar, object, and null (also what an absent field
\* decodes to).
RawPartsSet ==
    {ArrayVal(e) : e \in UNION {[1..n -> PartElements] : n \in 0..MaxElems}}
    \cup {StringsVal(e) : e \in UNION {[1..n -> {<<>>, <<"a">>}] : n \in 0..MaxElems}}
    \cup {StrVal(<<>>), StrVal(<<"a">>), NumVal(<<"7">>), BoolVal(<<"true">>), NullVal,
          ObjectVal([text |-> StrVal(<<"b">>)])}

InitNormalize ==
    /\ pc = "raw"
    /\ \E parts \in RawPartsSet : rawMsg = [ID |-> "A", CreateTime |-> 2, Parts |-> parts]
    /\ message = Unused
    /\ LinUnused
    /\ RunUnused

ConvertRawMessage ==
    /\ pc = "raw"
    /\ message' = convertRawMessage(rawMsg)
    /\ pc' = "normalized"
    /\ UNCHANGED <<rawMsg, linVars, runVars>>

NextNormalize == ConvertRawMessage

SpecNormalize == InitNormalize /\ [][NextNormalize]_vars

\* ------------------------------------------------------ convertRawConversation
\* Number of leading bytes of the identifier used in a synthesized title.
TitlePrefixLen == 8
ConversationPrefix == <<"C", "o", "n", "v", "e", "r", "s", "a", "t", "i", "o", "n", "-">>

\* raw.ID[:8] panics when the identifier is shorter.
SynthesizedTitlePanics(raw) == raw.Title = <<>> /\ Len(raw.ID) < TitlePrefixLen

\* The loop over raw.Mapping: a node whose message cannot be converted is
\* kept without a message.
ConvertRawNode(rawNode) ==
    [Parent |-> rawNode.Parent, Children |-> rawNode.Children,
     Message |-> IF rawNode.Message = NoMessage THEN NoMessage
                 ELSE LET r == convertRawMessage(rawNode.Message)
                      IN  IF r.err # NoError THEN NoMessage ELSE r.message]

\* Result of convertRawConversation where it does not panic.
convertRawConversation(raw) ==
    LET title == IF raw.Title = <<>>
                 THEN ConversationPrefix \o SubSeq(raw.ID, 1, TitlePrefixLen)
                 ELSE raw.Title
    IN  [conv |-> [ID |-> raw.ID, Title |-> title, CreateTime |-> raw.CreateTime,
                   Mapping |-> [k \in DOMAIN raw.Mapping |-> ConvertRawNode(raw.Mapping[k])],
                   CurrentNode |-> raw.CurrentNode],
         err |-> NoError]

\* ---------------------------------------------------- ConvertClaudeToStandard
RECURSIVE ClaudeContentText(_)
ClaudeContentText(content) ==
    IF content = <<>> THEN <<>>
    ELSE (CASE Head(content).Type = "text" -> Head(content).Text
            [] Head(content).Type = "image" -> <<"[Image: ">> \o Head(content).URL \o <<"]">>
            [] OTHER -> <<>>)
         \o ClaudeContentText(Tail(content))

ConvertClaudeToStandard(claude, projects) ==
    LET projectName == IF claude.ProjectUUID # <<>> /\ claude.ProjectUUID \in DOMAIN projects
                       THEN projects[claude.ProjectUUID].Name ELSE <<>>
        messages == [i \in DOMAIN claude.Messages |->
                        [ID |-> claude.Messages[i].UUID,
                         Content |-> ClaudeContentText(claude.Messages[i].Content),
                         Timestamp |-> claude.Messages[i].CreatedAt]]
    IN  [Metadata |-> [ID |-> claude.UUID, Title |-> claude.Name, Platform |-> "claude",
                       Project |-> projectName,
                       CreatedDate |-> claude.CreatedAt,
                       MessageCount |-> Len(messages),
                       Topics |-> extractTopics(claude.Name),
                       FilePath |-> <<>>],
         Messages |-> messages]

\* ------------------------------------------------------------ SanitizeFilename
Problematic == {"<", ">", ":", "\"", "/", "\\", "|", "?", "*"}
MaxFilenameLen == 100
Untitled == <<"u", "n", "t", "i", "t", "l", "e", "d">>

RECURSIVE CollapseUnderscores(_)
CollapseUnderscores(s) ==
    IF Len(s) < 2 THEN s
    ELSE IF s[1] = "_" /\ s[2] = "_" THEN CollapseUnderscores(Tail(s))
         ELSE <<s[1]>> \o CollapseUnderscores(Tail(s))

RECURSIVE TrimUnderscores(_)
TrimUnderscores(s) ==
    IF s = <<>> THEN s
    ELSE IF Head(s) = "_" THEN TrimUnderscores(Tail(s))
    ELSE IF s[Len(s)] = "_" THEN TrimUnderscores(SubSeq(s, 1, Len(s) - 1))
    ELSE s

SanitizeFilename(filename) ==
    LET replaced == [i \in DOMAIN filename |->
                        IF filename[i] \in Problematic THEN "_" ELSE filename[i]]
        trimmed == TrimUnderscores(CollapseUnderscores(replaced))
        limited == IF Len(trimmed) > MaxFilenameLen
                   THEN SubSeq(trimmed, 1, MaxFilenameLen) ELSE trimmed
    IN  IF limited = <<>> THEN Untitled ELSE limited

\* ---------------------------------------------------------------- the indexer
\* CreatedDate.Format("2006-01-02") of a time in seconds: the day.
FormatDate(t) == t \div 86400

\* Path of a conversation file: platform directory, project directory or
\* the day's year and month, and DATE_TITLE.json.
OutputPath(metadata) ==
    [platform |-> metadata.Platform,
     project |-> IF metadata.Project # <<>> THEN SanitizeFilename(metadata.Project) ELSE <<>>,
     date |-> FormatDate(metadata.CreatedDate),
     name |-> SanitizeFilename(metadata.Title)]

\* A faulty variant of AddTopics in which a topic's bucket is replaced, not
\* appended to.
RECURSIVE AddTopicsOverwrites(_, _, _)
AddTopicsOverwrites(topics, tags, id) ==
    IF tags = <<>> THEN topics
    ELSE AddTopicsOverwrites((Head(tags) :> <<id>>) @@ topics, Tail(tags), id)

RECURSIVE AddTopics(_, _, _)
AddTopics(topics, tags, id) ==
    IF tags = <<>> THEN topics
    ELSE LET t == Head(tags)
             bucket == IF t \in DOMAIN topics THEN topics[t] ELSE <<>>
         IN  AddTopics((t :> Append(bucket, id)) @@ topics, Tail(tags), id)

\* Indexer.AddConversation, run under the indexer's mutex.
AddConversation(idx, metadata) ==
    [conversations |-> Append(idx.conversations, metadata),
     topics |-> AddTopics(idx.topics, metadata.Topics, metadata.ID)]

RECURSIVE TimelineInner(_, _, _)
TimelineInner(s, i, j) ==
    IF j > Len(s) THEN s
    ELSE TimelineInner(IF After(s[i].CreatedDate, s[j].CreatedDate) THEN Swap(s, i, j) ELSE s,
                       i, j + 1)

\* A faulty variant of the outer loop that stops one position early.
RECURSIVE TimelineOuterStopsEarly(_, _)
TimelineOuterStopsEarly(s, i) ==
    IF i > Len(s) - 2 THEN s
    ELSE TimelineOuterStopsEarly(TimelineInner(s, i, i + 1), i + 1)

RECURSIVE TimelineOuter(_, _)
TimelineOuter(s, i) ==
    IF i > Len(s) - 1 THEN s
    ELSE TimelineOuter(TimelineInner(s, i, i + 1), i + 1)

\* generateTimeline where the listing is not empty.
generateTimeline(idx) ==
    LET sorted == TimelineOuter(idx.conversations, 1)
    IN  [conversations |-> sorted, total_count |-> Len(sorted),
         earliest |-> sorted[1].CreatedDate, latest |-> sorted[Len(sorted)].CreatedDate]

\* --------------------------------------------------------------- Processor.Run
ConversationWorkers == 25
JobChanCap == 100

\* What saveConversation writes: the record without the traversal's trace.
Saved(cv, path) ==
    [Metadata |-> [cv.Metadata EXCEPT !.FilePath = path], Messages |-> cv.Messages]

\* The part of both completion callbacks after the conversion: the output
\* directory and the file are created, which may fail, then the record is
\* saved, added to the index and counted. Leaves err in cbErr.
Persist(cv, platform, cbErr) ==
    LET path == OutputPath(cv.Metadata)
        saved == Saved(cv, path)
    IN  \/ /\ cbErr = "io error"
           /\ UNCHANGED <<index, files, stats>>
        \/ /\ cbErr = NoError
           /\ files' = (path :> saved) @@ files
           /\ index' = AddConversation(index, saved.Metadata)
           /\ stats' = [stats EXCEPT ![platform] =
                           [ConversationCount |-> @.ConversationCount + 1,
                            MessageCount |-> @.MessageCount + Len(cv.Messages)]]

\* The callback of processChatGPTConversations for record i of the batch,
\* run by the only goroutine of the standard parser.
ChatGPTCallback(c, i, cbErr) ==
    /\ \E order1 \in RangeOrders(DOMAIN c.Mapping) :
         \E order2 \in (IF RootNodes(c.Mapping) = {} /\ c.CurrentNode = ""
                        THEN RangeOrders(DOMAIN c.Mapping) ELSE {order1}) :
           LET cv == ConvertChatGPTToStandard(c, order1, order2)
           IN  /\ Persist(cv, "chatgpt", cbErr)
               /\ outcome' = [outcome EXCEPT ![i] =
                                 [@ EXCEPT !.callback = @ + 1, !.title = c.Title,
                                           !.messageCount = Len(cv.Messages),
                                           !.cbErr = cbErr,
                                           !.indexed = (cbErr = NoError)]]

\* One iteration of the loop of ParseClaudeConversations: the callback of
\* processClaudeConversations; its error is only printed.
ProcessClaude ==
    /\ ~crashed /\ mainPc = "claude" /\ next <= Len(claudeBatch)
    /\ \E cbErr \in {NoError, "io error"} :
         Persist(ConvertClaudeToStandard(claudeBatch[next], <<>>), "claude", cbErr)
    /\ next' = next + 1
    /\ UNCHANGED <<mainPc, inputVars, jobChan, jobClosed, workers, mutex, resultChan,
                   progressChan, reporter, tally, chatgptErr, timeline, crashed, outcome>>
    /\ UNCHANGED <<pc, linVars, normVars>>

\* json.Unmarshal of conversations.json into the slice of raw records fails
\* as a whole when one element does not decode.
DecodeFails(batch) == \E i \in DOMAIN batch : ~batch[i].Decodes

\* The pool without the limit: one worker per record.
NumWorkersUnbounded(total, limit) == total

\* numWorkers of processConversationsParallel.
NumWorkers(total, limit) == IF total < limit THEN total ELSE limit

\* processClaudeConversations returns; ParseConversations decodes the file
\* and picks the parser by file size. A decode failure is returned as the
\* error of the pass. processConversationsParallel returns at once on an
\* empty batch, and otherwise starts its workers and the progress reporter.
StartChatGPT ==
    /\ ~crashed /\ mainPc = "claude" /\ next > Len(claudeBatch)
    /\ next' = 1
    /\ IF DecodeFails(rawBatch)
       THEN mainPc' = "indexes" /\ chatgptErr' = "parse error"
            /\ UNCHANGED <<workers, reporter>>
       ELSE IF ~streaming
       THEN mainPc' = "standard" /\ UNCHANGED <<workers, reporter, chatgptErr>>
       ELSE IF Len(rawBatch) = 0
       THEN mainPc' = "indexes" /\ chatgptErr' = NoError /\ UNCHANGED <<workers, reporter>>
       ELSE /\ workers' = [w \in 1..NumWorkers(Len(rawBatch), workerLimit) |->
                              [pc |-> "recv", job |-> 0, conv |-> Unused, err |-> NoError,
                               reg |-> 0]]
            /\ reporter' = [pc |-> "recv", processed |-> 0]
            /\ mainPc' = "send"
            /\ UNCHANGED chatgptErr
    /\ UNCHANGED <<inputVars, jobChan, jobClosed, mutex, resultChan, progressChan, index,
                   files, stats, tally, timeline, crashed, outcome>>
    /\ UNCHANGED <<pc, linVars, normVars>>

\* One iteration of the loop of parseConversationsStandard; errors are only
\* printed.
StandardStep ==
    /\ ~crashed /\ mainPc = "standard" /\ next <= Len(rawBatch)
    /\ IF SynthesizedTitlePanics(rawBatch[next])
       THEN crashed' = TRUE /\ UNCHANGED <<next, index, files, stats, outcome>>
       ELSE LET r == convertRawConversation(rawBatch[next])
            IN  /\ IF r.err # NoError
                   THEN UNCHANGED <<index, files, stats, outcome>>
                   ELSE \E cbErr \in {NoError, "io error"} :
                            ChatGPTCallback(r.conv, next, cbErr)
                /\ next' = next + 1
                /\ UNCHANGED crashed
    /\ UNCHANGED <<mainPc, inputVars, jobChan, jobClosed, workers, mutex, resultChan,
                   progressChan, reporter, tally, chatgptErr, timeline>>
    /\ UNCHANGED <<pc, linVars, normVars>>

StandardDone ==
    /\ ~crashed /\ mainPc = "standard" /\ next > Len(rawBatch)
    /\ mainPc' = "indexes"
    /\ chatgptErr' = NoError
    /\ UNCHANGED <<inputVars, next, jobChan, jobClosed, workers, mutex, resultChan,
                   progressChan, reporter, index, files, stats, tally, timeline, crashed,
                   outcome>>
    /\ UNCHANGED <<pc, linVars, normVars>>

\* jobChan <- conversationJob{...}; blocks while the buffer is full.
SendJob ==
    /\ ~crashed /\ mainPc = "send" /\ next <= Len(rawBatch)
    /\ Len(jobChan) < jobChanCap
    /\ jobChan' = Append(jobChan, next)
    /\ next' = next + 1
    /\ UNCHANGED <<mainPc, inputVars, jobClosed, workers, mutex, resultChan, progressChan,
                   reporter, index, files, stats, tally, chatgptErr, timeline, crashed,
                   outcome>>
    /\ UNCHANGED <<pc, linVars, normVars>>

\* close(jobChan) after the last job; then wg.Wait().
CloseJobs ==
    /\ ~crashed /\ mainPc = "send" /\ next > Len(rawBatch)
    /\ jobClosed' = TRUE
    /\ mainPc' = "wait"
    /\ UNCHANGED <<inputVars, next, jobChan, workers, mutex, resultChan, progressChan,
                   reporter, index, files, stats, tally, chatgptErr, timeline, crashed,
                   outcome>>
    /\ UNCHANGED <<pc, linVars, normVars>>

\* A receive that leaves the job in the channel.
DequeueKeeps(ch) == ch

\* What a receive leaves buffered in the channel.
Dequeue(ch) == Tail(ch)

\* for job := range jobChan: a job is received.
WorkerRecv(w) ==
    /\ ~crashed /\ workers[w].pc = "recv" /\ jobChan # <<>>
    /\ workers' = [workers EXCEPT ![w] = [@ EXCEPT !.pc = "convert", !.job = Head(jobChan),
                                                   !.conv = Unused, !.err = NoError]]
    /\ jobChan' = Dequeue(jobChan)
    /\ outcome' = [outcome EXCEPT ![Head(jobChan)] =
                      [@ EXCEPT !.taken = @ + 1, !.worker = w]]
    /\ UNCHANGED <<mainPc, inputVars, next, jobClosed, mutex, resultChan, progressChan,
                   reporter, index, files, stats, tally, chatgptErr, timeline, crashed>>
    /\ UNCHANGED <<pc, linVars, normVars>>

\* The range loop ends when jobChan is closed and drained; wg.Done().
WorkerExit(w) ==
    /\ ~crashed /\ workers[w].pc = "recv" /\ jobChan = <<>> /\ jobClosed
    /\ workers' = [workers EXCEPT ![w] = [@ EXCEPT !.pc = "exit"]]
    /\ UNCHANGED <<mainPc, inputVars, next, jobChan, jobClosed, mutex, resultChan,
                   progressChan, reporter, index, files, stats, tally, chatgptErr, timeline,
                   crashed, outcome>>
    /\ UNCHANGED <<pc, linVars, normVars>>

\* p.convertRawConversation(job.rawConv); a panic in a goroutine ends the
\* process.
WorkerConvert(w) ==
    /\ ~crashed /\ workers[w].pc = "convert"
    /\ IF SynthesizedTitlePanics(rawBatch[workers[w].job])
       THEN crashed' = TRUE /\ UNCHANGED workers
       ELSE LET r == convertRawConversation(rawBatch[workers[w].job])
            IN  /\ workers' = [workers EXCEPT ![w] =
                                  IF r.err # NoError
                                  THEN [@ EXCEPT !.pc = "result", !.err = "convert error"]
                                  ELSE [@ EXCEPT !.pc = "callback", !.conv = r.conv]]
                /\ UNCHANGED crashed
    /\ UNCHANGED <<mainPc, inputVars, next, jobChan, jobClosed, mutex, resultChan,
                   progressChan, reporter, index, files, stats, tally, chatgptErr, timeline,
                   outcome>>
    /\ UNCHANGED <<pc, linVars, normVars>>

\* The error of the callback is not kept.
CallbackErrorDropped(callbackErr) == NoError

\* err of the worker after callback(conv) returned callbackErr.
CallbackError(callbackErr) ==
    IF callbackErr # NoError THEN "callback error" ELSE NoError

\* callback(conv) up to saveConversation: the conversion, the output
\* directory and the file. An I/O error returns from the callback.
WorkerCallback(w) ==
    /\ ~crashed /\ workers[w].pc = "callback"
    /\ LET c == workers[w].conv
           i == workers[w].job
       IN  \E cbErr \in {NoError, "io error"} :
             \E order1 \in RangeOrders(DOMAIN c.Mapping) :
               \E order2 \in (IF RootNodes(c.Mapping) = {} /\ c.CurrentNode = ""
                              THEN RangeOrders(DOMAIN c.Mapping) ELSE {order1}) :
                 LET cv == ConvertChatGPTToStandard(c, order1, order2)
                     saved == Saved(cv, OutputPath(cv.Metadata))
                 IN  /\ outcome' = [outcome EXCEPT ![i] =
                                       [@ EXCEPT !.callback = @ + 1, !.title = c.Title,
                                                 !.messageCount = Len(cv.Messages),
                                                 !.cbErr = cbErr]]
                     /\ IF cbErr # NoError
                        THEN /\ workers' = [workers EXCEPT ![w] =
                                               [@ EXCEPT !.pc = "result",
                                                         !.err = CallbackError(cbErr)]]
                             /\ UNCHANGED files
                        ELSE /\ files' = (saved.Metadata.FilePath :> saved) @@ files
                             /\ workers' = [workers EXCEPT ![w] =
                                               [@ EXCEPT !.pc = "lock", !.conv = saved]]
    /\ UNCHANGED <<mainPc, inputVars, next, jobChan, jobClosed, mutex, resultChan,
                   progressChan, reporter, index, stats, tally, chatgptErr, timeline,
                   crashed>>
    /\ UNCHANGED <<pc, linVars, normVars>>

\* idx.mutex.Lock() of AddConversation; blocks while another holds it.
WorkerLock(w) ==
    /\ ~crashed /\ workers[w].pc = "lock"
    /\ mutex = 0
    /\ mutex' = w
    /\ workers' = [workers EXCEPT ![w] = [@ EXCEPT !.pc = "add"]]
    /\ UNCHANGED <<mainPc, inputVars, next, jobChan, jobClosed, resultChan, progressChan,
                   reporter, index, files, stats, tally, chatgptErr, timeline, crashed,
                   outcome>>
    /\ UNCHANGED <<pc, linVars, normVars>>

\* The body of AddConversation and the deferred idx.mutex.Unlock().
WorkerAdd(w) ==
    /\ ~crashed /\ workers[w].pc = "add"
    /\ index' = AddConversation(index, workers[w].conv.Metadata)
    /\ mutex' = 0
    /\ workers' = [workers EXCEPT ![w] = [@ EXCEPT !.pc = "count"]]
    /\ outcome' = [outcome EXCEPT ![workers[w].job] = [@ EXCEPT !.indexed = TRUE]]
    /\ UNCHANGED <<mainPc, inputVars, next, jobChan, jobClosed, resultChan, progressChan,
                   reporter, files, stats, tally, chatgptErr, timeline, crashed>>
    /\ UNCHANGED <<pc, linVars, normVars>>

\* stats.ConversationCount++ reads the counter of the enclosing function ...
WorkerLoadCount(w) ==
    /\ ~crashed /\ workers[w].pc = "count"
    /\ workers' = [workers EXCEPT ![w] =
                      [@ EXCEPT !.pc = "storeCount", !.reg = stats.chatgpt.ConversationCount]]
    /\ UNCHANGED <<mainPc, inputVars, next, jobChan, jobClosed, mutex, resultChan,
                   progressChan, reporter, index, files, stats, tally, chatgptErr, timeline,
                   crashed, outcome>>
    /\ UNCHANGED <<pc, linVars, normVars>>

\* ... and writes it back incremented.
WorkerStoreCount(w) ==
    /\ ~crashed /\ workers[w].pc = "storeCount"
    /\ stats' = [stats EXCEPT !.chatgpt.ConversationCount = workers[w].reg + 1]
    /\ workers' = [workers EXCEPT ![w] = [@ EXCEPT !.pc = "messages"]]
    /\ UNCHANGED <<mainPc, inputVars, next, jobChan, jobClosed, mutex, resultChan,
                   progressChan, reporter, index, files, tally, chatgptErr, timeline,
                   crashed, outcome>>
    /\ UNCHANGED <<pc, linVars, normVars>>

\* stats.MessageCount += len(conv.Messages) reads the counter ...
WorkerLoadMessages(w) ==
    /\ ~crashed /\ workers[w].pc = "messages"
    /\ workers' = [workers EXCEPT ![w] =
                      [@ EXCEPT !.pc = "storeMessages", !.reg = stats.chatgpt.MessageCount]]
    /\ UNCHANGED <<mainPc, inputVars, next, jobChan, jobClosed, mutex, resultChan,
                   progressChan, reporter, index, files, stats, tally, chatgptErr, timeline,
                   crashed, outcome>>
    /\ UNCHANGED <<pc, linVars, normVars>>

\* ... and writes it back; the callback returns nil.
WorkerStoreMessages(w) ==
    /\ ~crashed /\ workers[w].pc = "storeMessages"
    /\ stats' = [stats EXCEPT !.chatgpt.MessageCount =
                                  workers[w].reg + Len(workers[w].conv.Messages)]
    /\ workers' = [workers EXCEPT ![w] =
                      [@ EXCEPT !.pc = "result", !.err = CallbackError(NoError)]]
    /\ UNCHANGED <<mainPc, inputVars, next, jobChan, jobClosed, mutex, resultChan,
                   progressChan, reporter, index, files, tally, chatgptErr, timeline,
                   crashed, outcome>>
    /\ UNCHANGED <<pc, linVars, normVars>>

\* resultChan <- err; the buffer holds one result per record.
WorkerResult(w) ==
    /\ ~crashed /\ workers[w].pc = "result"
    /\ Len(resultChan) < Len(rawBatch)
    /\ resultChan' = Append(resultChan, workers[w].err)
    /\ workers' = [workers EXCEPT ![w] = [@ EXCEPT !.pc = "progress"]]
    /\ outcome' = [outcome EXCEPT ![workers[w].job] = [@ EXCEPT !.results = @ + 1]]
    /\ UNCHANGED <<mainPc, inputVars, next, jobChan, jobClosed, mutex, progressChan,
                   reporter, index, files, stats, tally, chatgptErr, timeline, crashed>>
    /\ UNCHANGED <<pc, linVars, normVars>>

\* progressChan <- 1; the buffer holds one signal per record.
WorkerProgress(w) ==
    /\ ~crashed /\ workers[w].pc = "progress"
    /\ progressChan.buffered < Len(rawBatch)
    /\ progressChan' = [progressChan EXCEPT !.buffered = @ + 1]
    /\ workers' = [workers EXCEPT ![w] = [@ EXCEPT !.pc = "recv"]]
    /\ UNCHANGED <<mainPc, inputVars, next, jobChan, jobClosed, mutex, resultChan,
                   reporter, index, files, stats, tally, chatgptErr, timeline, crashed,
                   outcome>>
    /\ UNCHANGED <<pc, linVars, normVars>>

\* for range progressChan: processed++
ReporterRecv ==
    /\ ~crashed /\ reporter.pc = "recv" /\ progressChan.buffered > 0
    /\ progressChan' = [progressChan EXCEPT !.buffered = @ - 1]
    /\ reporter' = [reporter EXCEPT !.processed = @ + 1]
    /\ UNCHANGED <<mainPc, inputVars, next, jobChan, jobClosed, workers, mutex, resultChan,
                   index, files, stats, tally, chatgptErr, timeline, crashed, outcome>>
    /\ UNCHANGED <<pc, linVars, normVars>>

ReporterExit ==
    /\ ~crashed /\ reporter.pc = "recv" /\ progressChan.buffered = 0 /\ progressChan.closed
    /\ reporter' = [reporter EXCEPT !.pc = "exit"]
    /\ UNCHANGED <<mainPc, inputVars, next, jobChan, jobClosed, workers, mutex, resultChan,
                   progressChan, index, files, stats, tally, chatgptErr, timeline, crashed,
                   outcome>>
    /\ UNCHANGED <<pc, linVars, normVars>>

\* processConversationsParallel without wg.Wait(): the channels are closed
\* as soon as the jobs are sent.
WorkersDoneEarly ==
    /\ ~crashed /\ mainPc = "wait"
    /\ progressChan' = [progressChan EXCEPT !.closed = TRUE]
    /\ mainPc' = "waitReporter"
    /\ UNCHANGED <<inputVars, next, jobChan, jobClosed, workers, mutex, resultChan,
                   reporter, index, files, stats, tally, chatgptErr, timeline, crashed,
                   outcome>>
    /\ UNCHANGED <<pc, linVars, normVars>>

\* wg.Wait() returns; close(resultChan); close(progressChan).
WorkersDone ==
    /\ ~crashed /\ mainPc = "wait"
    /\ \A w \in DOMAIN workers : workers[w].pc = "exit"
    /\ progressChan' = [progressChan EXCEPT !.closed = TRUE]
    /\ mainPc' = "waitReporter"
    /\ UNCHANGED <<inputVars, next, jobChan, jobClosed, workers, mutex, resultChan,
                   reporter, index, files, stats, tally, chatgptErr, timeline, crashed,
                   outcome>>
    /\ UNCHANGED <<pc, linVars, normVars>>

\* progressWg.Wait() returns; the results are counted and nil is returned.
CollectResults ==
    /\ ~crashed /\ mainPc = "waitReporter" /\ reporter.pc = "exit"
    /\ tally' = [successCount |-> Cardinality({i \in DOMAIN resultChan : resultChan[i] = NoError}),
                 errors |-> Cardinality({i \in DOMAIN resultChan : resultChan[i] # NoError})]
    /\ resultChan' = <<>>
    /\ chatgptErr' = NoError
    /\ mainPc' = "indexes"
    /\ UNCHANGED <<inputVars, next, jobChan, jobClosed, workers, mutex, progressChan,
                   reporter, index, files, stats, timeline, crashed, outcome>>
    /\ UNCHANGED <<pc, linVars, normVars>>

\* The error of the ChatGPT pass is only printed. p.indexer.GenerateIndexes();
\* generateTimeline reads sorted[0] and panics when no conversation was
\* recorded.
GenerateIndexes ==
    /\ ~crashed /\ mainPc = "indexes"
    /\ IF Len(index.conversations) = 0
       THEN crashed' = TRUE /\ UNCHANGED <<mainPc, timeline>>
       ELSE /\ timeline' = generateTimeline(index)
            /\ mainPc' = "done"
            /\ UNCHANGED crashed
    /\ UNCHANGED <<inputVars, next, jobChan, jobClosed, workers, mutex, resultChan,
                   progressChan, reporter, index, files, stats, tally, chatgptErr, outcome>>
    /\ UNCHANGED <<pc, linVars, normVars>>

\* Claude conversations of the export: one message each, with and without a
\* name.
ClaudeConversations ==
    {[UUID |-> <<"c", "1">>, Name |-> name, CreatedAt |-> 3, ProjectUUID |-> <<>>,
      Messages |-> <<[UUID |-> <<"m">>, CreatedAt |-> 3,
                      Content |-> <<[Type |-> "text", Text |-> <<"h", "i">>, URL |-> <<>>]>>]>>] :
        name \in {<<>>, <<"W", "e", "b">>}}

\* A raw mapping of a parentless node without a message and its child.
RawTree ==
    [A |-> [Parent |-> "", Children |-> <<"B">>, Message |-> NoMessage],
     B |-> [Parent |-> "A", Children |-> <<>>,
            Message |-> [ID |-> "B", CreateTime |-> 4,
                         Parts |-> ArrayVal(<<StrVal(<<"a">>), ObjectVal([url |-> StrVal(<<"u">>)])>>)]]]

\* The empty identifier, one shorter and one longer than the title prefix.
RecordIDs == {<<>>, <<"a", "b", "c">>, <<"a", "b", "c", "1", "2", "3", "4", "5", "-", "x">>}

\* A record of conversations.json that json.Unmarshal cannot decode.
Undecodable ==
    [ID |-> <<"a", "b", "c", "1", "2", "3", "4", "5", "-", "x">>, Title |-> <<"G", "o", ":", "?">>,
     CreateTime |-> 2, Mapping |-> RawTree, CurrentNode |-> "B", Decodes |-> FALSE]

\* Raw records of the export: every identifier, with and without a title,
\* with an empty and a non-empty mapping, and one that does not decode.
RawRecords ==
    {[ID |-> id, Title |-> title, CreateTime |-> 2, Mapping |-> mapping, CurrentNode |-> "B",
      Decodes |-> TRUE] :
        id \in RecordIDs, title \in {<<>>, <<"G", "o", ":", "?">>}, mapping \in {<<>>, RawTree}}
    \cup {Undecodable}

SeqsUpTo(S, n) == UNION {[1..k -> S] : k \in 0..n}

\* The state of Run before the passes, over the given export.
RunStarts ==
    /\ pc = "run" /\ LinUnused /\ NormUnused
    /\ mainPc = "claude"
    /\ next = 1
    /\ jobChan = <<>>
    /\ jobClosed = FALSE
    /\ workers = <<>>
    /\ mutex = 0
    /\ resultChan = <<>>
    /\ progressChan = [buffered |-> 0, closed |-> FALSE]
    /\ reporter = [pc |-> "none", processed |-> 0]
    /\ index = [conversations |-> <<>>, topics |-> <<>>]
    /\ files = <<>>
    /\ stats = [claude |-> [ConversationCount |-> 0, MessageCount |-> 0],
                chatgpt |-> [ConversationCount |-> 0, MessageCount |-> 0]]
    /\ tally = [successCount |-> 0, errors |-> 0]
    /\ chatgptErr = "pending"
    /\ timeline = Unused
    /\ crashed = FALSE
    /\ outcome = [i \in DOMAIN rawBatch |->
                     [taken |-> 0, worker |-> 0, callback |-> 0, title |-> <<>>,
                      messageCount |-> 0, cbErr |-> NoError, indexed |-> FALSE,
                      results |-> 0]]

\* A run over a small export: the ChatGPT file is below the streaming
\* threshold and goes through the standard parser.
InitRun ==
    /\ claudeBatch \in SeqsUpTo(ClaudeConversations, MaxClaude)
    /\ rawBatch \in SeqsUpTo(RawRecords, MaxRecords)
    /\ streaming = FALSE
    /\ workerLimit = ConversationWorkers
    /\ jobChanCap = JobChanCap
    /\ RunStarts

NextRun ==
    \/ ProcessClaude
    \/ StartChatGPT
    \/ StandardStep
    \/ StandardDone
    \/ GenerateIndexes

SpecRun == InitRun /\ [][NextRun]_vars

\* ------------------------------------------------------------ the worker pool
\* Records of a large export: two that convert, with the topics python and
\* python, web; one whose title must be synthesized from a short identifier;
\* one that does not decode.
PoolRecords ==
    {[ID |-> <<"c", "o", "n", "v", "0", "0", "0", "1">>,
      Title |-> <<"P", "y", "t", "h", "o", "n">>,
      CreateTime |-> 2, Mapping |-> RawTree, CurrentNode |-> "B", Decodes |-> TRUE],
     [ID |-> <<"c", "o", "n", "v", "0", "0", "0", "2">>,
      Title |-> <<"P", "y", "t", "h", "o", "n", " ", "w", "e", "b">>,
      CreateTime |-> 2, Mapping |-> <<>>, CurrentNode |-> "", Decodes |-> TRUE],
     [ID |-> <<"a", "b", "c">>, Title |-> <<>>,
      CreateTime |-> 2, Mapping |-> <<>>, CurrentNode |-> "", Decodes |-> TRUE],
     [ID |-> <<"c", "o", "n", "v", "0", "0", "0", "3">>, Title |-> <<"G", "o">>,
      CreateTime |-> 2, Mapping |-> <<>>, CurrentNode |-> "", Decodes |-> FALSE]}

\* The limit of the pool and the capacity of jobChan: the program's, and a
\* pool of one worker behind a buffer of one job, which makes a batch of
\* two records larger than both.
PoolSizes ==
    {[workers |-> ConversationWorkers, jobs |-> JobChanCap], [workers |-> 1, jobs |-> 1]}

\* Batches of up to n records of S in which no record occurs twice: an
\* export holds every conversation once.
DistinctSeqsUpTo(S, n) ==
    {b \in SeqsUpTo(S, n) : \A i, j \in DOMAIN b : i # j => b[i] # b[j]}

\* A run over a large export: no Claude conversations, and a ChatGPT file
\* above the streaming threshold, which goes through the worker pool.
InitPool ==
    /\ claudeBatch = <<>>
    /\ rawBatch \in DistinctSeqsUpTo(PoolRecords, MaxJobs)
    /\ streaming = TRUE
    /\ \E size \in PoolSizes : workerLimit = size.workers /\ jobChanCap = size.jobs
    /\ RunStarts

\* The goroutine of Run while it is in processConversationsParallel or
\* past it.
MainStep ==
    \/ StartChatGPT
    \/ SendJob
    \/ CloseJobs
    \/ WorkersDone
    \/ CollectResults
    \/ GenerateIndexes

\* A step of conversationWorker w that depends only on the scheduler.
WorkerStep(w) ==
    /\ w \in DOMAIN workers
    /\ \/ WorkerRecv(w)
       \/ WorkerExit(w)
       \/ WorkerConvert(w)
       \/ WorkerLock(w)
       \/ WorkerAdd(w)
       \/ WorkerLoadCount(w)
       \/ WorkerStoreCount(w)
       \/ WorkerLoadMessages(w)
       \/ WorkerStoreMessages(w)
       \/ WorkerResult(w)
       \/ WorkerProgress(w)

ReporterStep == ReporterRecv \/ ReporterExit

NextPool ==
    \/ StartChatGPT
    \/ SendJob
    \/ CloseJobs
    \/ \E w \in DOMAIN workers : WorkerRecv(w)
    \/ \E w \in DOMAIN workers : WorkerExit(w)
    \/ \E w \in DOMAIN workers : WorkerConvert(w)
    \/ \E w \in DOMAIN workers : WorkerCallback(w)
    \/ \E w \in DOMAIN workers : WorkerLock(w)
    \/ \E w \in DOMAIN workers : WorkerAdd(w)
    \/ \E w \in DOMAIN workers : WorkerLoadCount(w)
    \/ \E w \in DOMAIN workers : WorkerStoreCount(w)
    \/ \E w \in DOMAIN workers : WorkerLoadMessages(w)
    \/ \E w \in DOMAIN workers : WorkerStoreMessages(w)
    \/ \E w \in DOMAIN workers : WorkerResult(w)
    \/ \E w \in DOMAIN workers : WorkerProgress(w)
    \/ ReporterRecv
    \/ ReporterExit
    \/ WorkersDone
    \/ CollectResults
    \/ GenerateIndexes

SpecPool == InitPool /\ [][NextPool]_vars

\* The Go scheduler runs every goroutine that can take a step. Whether
\* callback(conv) returns is up to the file system, not the scheduler.
PoolFairness ==
    /\ WF_vars(MainStep)
    /\ \A w \in 1..MaxJobs : WF_vars(WorkerStep(w))
    /\ WF_vars(ReporterStep)

SpecPoolFair == SpecPool /\ PoolFairness

\* ------------------------------------------------- the conversation files
\* Two conversations created on the same day whose titles differ and
\* sanitize to the same file name; one has a message, the other none.
SinkRecords ==
    {[ID |-> <<"c", "o", "n", "v", "0", "0", "0", "1">>, Title |-> <<"G", "o">>,
      CreateTime |-> 2, Mapping |-> RawTree, CurrentNode |-> "B", Decodes |-> TRUE],
     [ID |-> <<"c", "o", "n", "v", "0", "0", "0", "2">>, Title |-> <<"G", "o", ":", "?">>,
      CreateTime |-> 2, Mapping |-> <<>>, CurrentNode |-> "", Decodes |-> TRUE]}

\* A run over a large export made of these conversations.
InitSink ==
    /\ claudeBatch = <<>>
    /\ rawBatch \in DistinctSeqsUpTo(SinkRecords, MaxJobs)
    /\ streaming = TRUE
    /\ \E size \in PoolSizes : workerLimit = size.workers /\ jobChanCap = size.jobs
    /\ RunStarts

SpecSink == InitSink /\ [][NextPool]_vars

\* ------------------------------------------------------------- the Indexer
\* Metadata of recorded conversations: three identifiers on three dates.
ListingIDs == {<<"a">>, <<"b">>, <<"c">>}
ListingDates == 1..3
ListingEntries ==
    {[ID |-> id, Title |-> <<"G", "o">>, Platform |-> "chatgpt", Project |-> <<>>,
      CreatedDate |-> d, MessageCount |-> 0, Topics |-> <<"go">>, FilePath |-> <<>>] :
        id \in ListingIDs, d \in ListingDates}

\* The Indexer after AddConversation was called with each entry in turn.
RECURSIVE RecordAll(_, _)
RecordAll(idx, entries) ==
    IF entries = <<>> THEN idx
    ELSE RecordAll(AddConversation(idx, Head(entries)), Tail(entries))

\* Run has finished both passes, which recorded the conversations of a
\* listing of at most MaxListing entries, and is about to call
\* p.indexer.GenerateIndexes().
InitIndexer ==
    /\ pc = "run" /\ LinUnused /\ NormUnused
    /\ claudeBatch = <<>> /\ rawBatch = <<>> /\ streaming = FALSE
    /\ workerLimit = ConversationWorkers /\ jobChanCap = JobChanCap
    /\ mainPc = "indexes"
    /\ next = 1
    /\ jobChan = <<>>
    /\ jobClosed = FALSE
    /\ workers = <<>>
    /\ mutex = 0
    /\ resultChan = <<>>
    /\ progressChan = [buffered |-> 0, closed |-> FALSE]
    /\ reporter = [pc |-> "none", processed |-> 0]
    /\ \E listing \in SeqsUpTo(ListingEntries, MaxListing) :
          index = RecordAll([conversations |-> <<>>, topics |-> <<>>], listing)
    /\ files = <<>>
    /\ stats = [claude |-> [ConversationCount |-> 0, MessageCount |-> 0],
                chatgpt |-> [ConversationCount |-> 0, MessageCount |-> 0]]
    /\ tally = [successCount |-> 0, errors |-> 0]
    /\ chatgptErr = NoError
    /\ timeline = Unused
    /\ crashed = FALSE
    /\ outcome = <<>>

NextIndexer == GenerateIndexes

SpecIndexer == InitIndexer /\ [][NextIndexer]_vars

\* ============================================================== properties
Range(s) == {s[i] : i \in DOMAIN s}

MessageNodes(mapping) == {k \in DOMAIN mapping : mapping[k].Message # NoMessage}

\* Positions of the result that hold the message of node k.
PositionsOf(messages, k) == {i \in DOMAIN messages : messages[i].ID = k}

RECURSIVE ReachesRoot(_, _, _)
ReachesRoot(mapping, k, n) ==
    \/ mapping[k].Parent = ""
    \/ /\ n > 0
       /\ mapping[k].Parent \in DOMAIN mapping
       /\ ReachesRoot(mapping, mapping[k].Parent, n - 1)

\* Roots have an empty parent, every other node is listed as a child by its
\* parent and by no other node, child lists name nodes only, and following
\* the parents of a node leads to a root.
ValidForest(mapping) ==
    /\ \A k, p \in DOMAIN mapping :
         (k \in Range(mapping[p].Children)) <=> (mapping[k].Parent = p)
    /\ \A p \in DOMAIN mapping : Range(mapping[p].Children) \subseteq DOMAIN mapping
    /\ \A k \in DOMAIN mapping : ReachesRoot(mapping, k, Cardinality(DOMAIN mapping))

NonDecreasing(messages) ==
    \A i, j \in DOMAIN messages : i < j => messages[i].Timestamp <= messages[j].Timestamp

Converted == pc = "converted"

\* C1: for a mapping that is a valid forest the result holds exactly one
\* message per message-bearing node and is in non-decreasing timestamp order.
C1_ForestLinearized ==
    (Converted /\ ValidForest(chatgpt.Mapping)) =>
        /\ \A k \in MessageNodes(chatgpt.Mapping) :
             Cardinality(PositionsOf(conv.Messages, k)) = 1
        /\ Len(conv.Messages) = Cardinality(MessageNodes(chatgpt.Mapping))
        /\ NonDecreasing(conv.Messages)

\* A forest of three message-bearing nodes, one of them with two children,
\* whose traversal order had to be rearranged by the sort.
C1_Witness ==
    /\ Converted
    /\ ValidForest(chatgpt.Mapping)
    /\ Cardinality(MessageNodes(chatgpt.Mapping)) = 3
    /\ \E k \in DOMAIN chatgpt.Mapping : Len(chatgpt.Mapping[k].Children) = 2
    /\ ~NonDecreasing(conv.traversal)
    /\ NonDecreasing(conv.Messages)

RECURSIVE SumChildren(_, _)
SumChildren(mapping, keys) ==
    IF keys = {} THEN 0
    ELSE LET k == CHOOSE x \in keys : TRUE
         IN  Len(mapping[k].Children) + SumChildren(mapping, keys \ {k})

\* The calls a terminating traversal can make: one per start, and one per
\* entry of the child list of every node, whose loop runs at most once.
CallBound(mapping) ==
    (IF RootNodes(mapping) = {} THEN 1 ELSE Cardinality(RootNodes(mapping)))
        + SumChildren(mapping, DOMAIN mapping)

\* C2: for every mapping (cycles, shared children, dangling children
\* included) the traversal ends within the call bound, every node gives at
\* most one message and every message is the message of a node.
C2_TerminatesAtMostOnce ==
    Converted =>
        /\ conv.calls <= CallBound(chatgpt.Mapping)
        /\ \A k \in DOMAIN chatgpt.Mapping :
             Cardinality(PositionsOf(conv.Messages, k)) <= 1
        /\ \A i \in DOMAIN conv.Messages :
             /\ conv.Messages[i].ID \in MessageNodes(chatgpt.Mapping)
             /\ conv.Messages[i] = NewMessage(chatgpt.Mapping[conv.Messages[i].ID].Message)

\* Two nodes that list each other and both list an identifier naming no
\* node, traversed with both messages emitted.
C2_Witness ==
    /\ Converted
    /\ \E a, b \in DOMAIN chatgpt.Mapping :
         /\ a # b
         /\ b \in Range(chatgpt.Mapping[a].Children)
         /\ a \in Range(chatgpt.Mapping[b].Children)
         /\ \E d \in Range(chatgpt.Mapping[a].Children) \cap Range(chatgpt.Mapping[b].Children) :
              d \notin DOMAIN chatgpt.Mapping
         /\ {a, b} \subseteq conv.visited
         /\ Len(conv.Messages) = 2

\* Position of the message of node k in a sequence that holds it once.
PositionOf(messages, k) == CHOOSE i \in DOMAIN messages : messages[i].ID = k

\* C3: messages with equal timestamps keep the relative order in which the
\* traversal appended them.
C3_SortStable ==
    Converted =>
        \A i, j \in DOMAIN conv.traversal :
            (i < j /\ conv.traversal[i].Timestamp = conv.traversal[j].Timestamp) =>
                PositionOf(conv.Messages, conv.traversal[i].ID)
                    < PositionOf(conv.Messages, conv.traversal[j].ID)

RECURSIVE ReachableFrom(_, _, _)
ReachableFrom(mapping, seen, n) ==
    LET grown == seen \cup UNION {Range(mapping[k].Children) : k \in seen \cap DOMAIN mapping}
    IN  IF n = 0 \/ grown = seen THEN seen ELSE ReachableFrom(mapping, grown, n - 1)

\* Nodes reachable from nodeID through child identifiers.
Reachable(mapping, nodeID) ==
    ReachableFrom(mapping, {nodeID}, Cardinality(DOMAIN mapping)) \cap DOMAIN mapping

NoRoots(mapping) == \A k \in DOMAIN mapping : mapping[k].Parent # ""

\* C5: without roots and with a current-node pointer naming a node, the
\* traversal starts from that node, and the result is non-empty when the
\* node or a node reachable from it carries a message.
C5_CurrentNodeFallback ==
    (Converted /\ NoRoots(chatgpt.Mapping) /\ chatgpt.CurrentNode \in DOMAIN chatgpt.Mapping) =>
        /\ conv.starts = <<chatgpt.CurrentNode>>
        /\ (Reachable(chatgpt.Mapping, chatgpt.CurrentNode) \cap MessageNodes(chatgpt.Mapping) # {})
               => Len(conv.Messages) > 0

\* A rootless mapping whose current node has no message itself but reaches
\* one, while another message-bearing node is out of its reach.
C5_Witness ==
    /\ Converted
    /\ NoRoots(chatgpt.Mapping)
    /\ chatgpt.CurrentNode \in DOMAIN chatgpt.Mapping
    /\ chatgpt.CurrentNode \notin MessageNodes(chatgpt.Mapping)
    /\ Len(conv.Messages) > 0
    /\ MessageNodes(chatgpt.Mapping) \ Reachable(chatgpt.Mapping, chatgpt.CurrentNode) # {}

\* Content without a character other than white space.
Blank(parts) ==
    \A i \in DOMAIN Elems(parts) : Range(Elems(parts)[i]) \subseteq WhiteSpace

\* C4: every message of the result has non-empty content; a visited node
\* whose message content is blank is emitted, once, with "[Empty message]".
C4_NoEmptyContent ==
    Converted =>
        /\ \A i \in DOMAIN conv.Messages : conv.Messages[i].Content # <<>>
        /\ \A k \in MessageNodes(chatgpt.Mapping) \cap conv.visited :
             Blank(chatgpt.Mapping[k].Message.Parts) =>
                 /\ Cardinality(PositionsOf(conv.Messages, k)) = 1
                 /\ conv.Messages[PositionOf(conv.Messages, k)].Content = EmptyMessage

\* The example of the specification: root A without a message, its child B
\* with a message of empty content.
C4_Witness ==
    /\ Converted
    /\ DOMAIN chatgpt.Mapping = {"A", "B"}
    /\ chatgpt.Mapping["A"].Parent = ""
    /\ chatgpt.Mapping["A"].Children = <<"B">>
    /\ chatgpt.Mapping["A"].Message = NoMessage
    /\ chatgpt.Mapping["B"].Parent = "A"
    /\ chatgpt.Mapping["B"].Children = <<>>
    /\ chatgpt.Mapping["B"].Message # NoMessage
    /\ chatgpt.Mapping["B"].Message.Parts = Slice(<< <<>> >>)
    /\ Len(conv.Messages) = 1
    /\ conv.Messages[1].Content = EmptyMessage

\* C6: without roots and without a usable current-node pointer (empty, or
\* naming no node) the traversal starts from a node that carries a message,
\* so the result is non-empty when some node carries a message.
C6_AnyNodeFallback ==
    (Converted /\ NoRoots(chatgpt.Mapping) /\ chatgpt.CurrentNode \notin DOMAIN chatgpt.Mapping
        /\ MessageNodes(chatgpt.Mapping) # {}) =>
        /\ Len(conv.starts) > 0
        /\ conv.starts[Len(conv.starts)] \in MessageNodes(chatgpt.Mapping)
        /\ Len(conv.Messages) > 0

\* The run is over: Run returned, or the process died of a panic.
RunEnded == pc = "run" /\ (mainPc = "done" \/ crashed)

\* s occurs in t as a contiguous run of characters.
Occurs(s, t) == \E k \in 0..(Len(t) - Len(s)) : SubSeq(t, k + 1, k + Len(s)) = s

\* C7: a raw conversation with an empty mapping is never dropped: by the
\* end of the run the completion callback was invoked for it once, it was
\* linearized to zero messages, and unless writing its file failed it is
\* in the index.
C7_EmptyMappingKept ==
    RunEnded =>
        \A i \in DOMAIN rawBatch :
            rawBatch[i].Mapping = <<>> =>
                /\ outcome[i].callback = 1
                /\ outcome[i].messageCount = 0
                /\ outcome[i].cbErr = NoError => outcome[i].indexed

\* C8: a raw record with an empty title, whatever its identifier, is
\* converted without failure, reaches the callback, and carries a non-empty
\* title there; with an identifier of at least eight characters the title
\* contains the first eight.
C8_TitleSynthesized ==
    RunEnded =>
        \A i \in DOMAIN rawBatch :
            rawBatch[i].Title = <<>> =>
                /\ outcome[i].callback = 1
                /\ outcome[i].title # <<>>
                /\ Len(rawBatch[i].ID) >= TitlePrefixLen =>
                       Occurs(SubSeq(rawBatch[i].ID, 1, TitlePrefixLen), outcome[i].title)

\* C9: every record in the index and every saved record, from either
\* source format, has a non-empty title.
C9_TitlesNonEmpty ==
    pc = "run" =>
        /\ \A i \in DOMAIN index.conversations : index.conversations[i].Title # <<>>
        /\ \A path \in DOMAIN files : files[path].Metadata.Title # <<>>

\* C10: convertRawMessage returns no error and a list of fragments that is
\* not nil, for every shape of the parts field.
C10_NormalizeTotal ==
    pc = "normalized" => (message.err = NoError /\ message.message.Parts # NilSlice)

\* An object element that carries a string under the key text.
IsTextObject(e) ==
    e.kind = "object" /\ "text" \in DOMAIN e.val /\ e.val["text"].kind = "string"

\* The fragment the claim expects for one element of a mixed list.
ExpectedFragment(e, fragment) ==
    CASE e.kind = "string" -> fragment = e.val
      [] IsTextObject(e) -> fragment = e.val["text"].val
      [] e.kind = "object" /\ ~IsTextObject(e) ->
            Len(fragment) > 0 /\ fragment[1] = "[Object: "
      [] OTHER -> fragment = FormatV(e)

\* C11: for a list of mixed values convertRawMessage returns one fragment
\* per element, in order: a string unchanged, the text of an object that
\* has a string text field, a placeholder that starts with the non-text
\* marker for any other object, and the string conversion of anything
\* else; a single string gives the one-element list holding it.
C11_OneFragmentPerElement ==
    pc = "normalized" =>
        /\ rawMsg.Parts.kind = "array" =>
              LET fragments == Elems(message.message.Parts)
              IN  /\ Len(fragments) = Len(rawMsg.Parts.val)
                  /\ \A i \in DOMAIN fragments :
                        ExpectedFragment(rawMsg.Parts.val[i], fragments[i])
        /\ rawMsg.Parts.kind = "string" =>
              /\ ~message.message.Parts.nil
              /\ Elems(message.message.Parts) = <<rawMsg.Parts.val>>

C11_Witness ==
    /\ pc = "normalized"
    /\ rawMsg.Parts = ArrayVal(<<StrVal(<<>>), ObjectVal([url |-> StrVal(<<"u">>)])>>)
    /\ Elems(message.message.Parts)
         = << <<>>, <<"[Object: ", "map[", "url", ":", "u", "]", "]">> >>

\* ParseConversations has returned, or the process died inside it.
PoolEnded == pc = "run" /\ (chatgptErr # "pending" \/ crashed)

\* processConversationsParallel has returned nil.
PoolReturned == pc = "run" /\ streaming /\ chatgptErr = NoError

\* No record of the batch makes convertRawConversation panic.
NoPanickingRecord == \A i \in DOMAIN rawBatch : ~SynthesizedTitlePanics(rawBatch[i])

\* C12: a record that does not decode affects only itself: every other
\* record of the batch is still converted and passed to the callback.
C12_DecodeFailureIsolated ==
    (PoolEnded /\ NoPanickingRecord) =>
        \A i \in DOMAIN rawBatch : rawBatch[i].Decodes => outcome[i].callback = 1

\* Records of the batch whose callback returned an error.
FailedCallbacks == {i \in DOMAIN rawBatch : outcome[i].cbErr # NoError}

\* C13: a callback error is reported once in the error list and stops
\* nothing: the worker holds the error for resultChan and leaves its loop
\* only when jobChan is closed and drained, and when
\* processConversationsParallel has returned, which it does with nil,
\* every record went through its callback once, has one result, and the
\* errors collected are those of the failed callbacks.
C13_CallbackErrorReported ==
    pc = "run" =>
        /\ \A w \in DOMAIN workers :
              /\ (workers[w].pc = "result" /\ workers[w].job \in FailedCallbacks)
                    => workers[w].err # NoError
              /\ workers[w].pc = "exit" => (jobClosed /\ jobChan = <<>>)
        /\ PoolReturned =>
              /\ \A i \in DOMAIN rawBatch :
                    outcome[i].callback = 1 /\ outcome[i].results = 1
              /\ tally.errors = Cardinality(FailedCallbacks)
              /\ tally.successCount = Len(rawBatch) - Cardinality(FailedCallbacks)

C13_Witness ==
    /\ PoolReturned
    /\ workerLimit = 1
    /\ Len(rawBatch) = 2
    /\ outcome[1].cbErr # NoError
    /\ outcome[2].worker = outcome[1].worker
    /\ outcome[2].callback = 1
    /\ outcome[2].cbErr = NoError
    /\ outcome[2].indexed
    /\ tally = [successCount |-> 1, errors |-> 1]

\* C14: a panic while one record is converted is confined to that record:
\* every other record still goes through its callback and
\* processConversationsParallel returns.
C14_PanicConfined ==
    (PoolEnded /\ ~DecodeFails(rawBatch)) =>
        /\ \A i \in DOMAIN rawBatch :
              ~SynthesizedTitlePanics(rawBatch[i]) => outcome[i].callback = 1
        /\ chatgptErr = NoError

\* C15: no record is taken from jobChan, given a result or passed to the
\* callback more than once, and when processConversationsParallel has
\* returned every record was taken once and has one result, and
\* successCount plus the number of errors is the size of the batch.
C15_ExactlyOnce ==
    pc = "run" =>
        /\ \A i \in DOMAIN rawBatch :
              outcome[i].taken <= 1 /\ outcome[i].results <= 1 /\ outcome[i].callback <= 1
        /\ PoolReturned =>
              /\ \A i \in DOMAIN rawBatch : outcome[i].taken = 1 /\ outcome[i].results = 1
              /\ tally.successCount + tally.errors = Len(rawBatch)

C15_Witness ==
    /\ PoolReturned
    /\ Len(rawBatch) = 2
    /\ outcome[1].worker # outcome[2].worker
    /\ outcome[1].taken = 1 /\ outcome[2].taken = 1
    /\ tally.successCount + tally.errors = 2

\* Workers that are converting a record or are inside its callback.
InFlight ==
    {w \in DOMAIN workers :
        workers[w].pc \in {"convert", "callback", "lock", "add", "count", "storeCount",
                           "messages", "storeMessages"}}

\* The size the claim gives the pool: the limit, or the size of the batch
\* when that is smaller.
PoolSize == IF Len(rawBatch) < workerLimit THEN Len(rawBatch) ELSE workerLimit

\* C17: at every moment the records being converted or inside the
\* callback are at most the size of the pool, and the pool has that size
\* from the moment it is started.
C17_BoundedConcurrency ==
    (pc = "run" /\ streaming) =>
        /\ Cardinality(InFlight) <= PoolSize
        /\ Len(workers) \in {0, PoolSize}
        /\ mainPc \in {"send", "wait", "waitReporter"} => Len(workers) = PoolSize

C17_Witness ==
    /\ pc = "run"
    /\ workerLimit = 1
    /\ Len(rawBatch) = 2
    /\ Len(workers) = 1
    /\ workers[1].pc = "callback"
    /\ jobChan = <<2>>

\* Worker w is inside the callback of a record of the set S.
InCallback(w, S) ==
    w \in DOMAIN workers /\ workers[w].pc = "callback" /\ workers[w].job \in S

\* Every callback of a record of S that is entered returns.
CallbacksReturn(S) == \A w \in 1..MaxJobs : []<>~InCallback(w, S)

\* C16: processConversationsParallel terminates without deadlock: if every
\* callback returns, then under fair scheduling ParseConversations returns;
\* jobChan is closed only after the last record was enqueued; and when
\* processConversationsParallel has returned, every worker and the
\* progress reporter have exited and every record has its result.
C16_Terminates ==
    CallbacksReturn(1..MaxJobs) =>
        /\ <>(pc = "run" /\ chatgptErr # "pending")
        /\ [](jobClosed = TRUE => next > Len(rawBatch))
        /\ [](PoolReturned =>
                /\ \A w \in DOMAIN workers : workers[w].pc = "exit"
                /\ Len(rawBatch) > 0 => reporter.pc = "exit"
                /\ \A i \in DOMAIN rawBatch : outcome[i].results = 1)

\* C18: when the callback of record h never returns and the pool has at
\* least two workers, every other record that can be converted is still
\* eventually passed to its callback.
C18_HungCallbackStallsOneWorker ==
    \A h \in 1..MaxJobs :
        (/\ PoolSize >= 2
         /\ <>[](\E w \in 1..MaxJobs : InCallback(w, {h}))
         /\ CallbacksReturn((1..MaxJobs) \ {h}))
            => <>(\A i \in DOMAIN rawBatch \ {h} :
                     ~SynthesizedTitlePanics(rawBatch[i]) => outcome[i].callback = 1)

\* C19: every step taken while two or more workers run that writes state
\* shared between the workers (the indexer's listing and topic map, the
\* counters of the enclosing function) is taken while holding the
\* indexer's lock.
C19_SharedWritesLocked ==
    [][(pc = "run" /\ Len(workers) >= 2 /\ (index' # index \/ stats' # stats))
          => mutex # 0]_vars

\* Number of positions of the sequence s that hold x.
Count(s, x) == Cardinality({k \in DOMAIN s : s[k] = x})

\* The records whose AddConversation call has been made.
Recorded == {i \in DOMAIN rawBatch : outcome[i].indexed}

\* C20: after any interleaving of the workers' AddConversation calls the
\* listing holds exactly one entry per call, and for every topic the bucket
\* holds the identifier of each listed conversation once per occurrence of
\* the topic among its tags, and no other identifier.
C20_ConcurrentRecord ==
    (pc = "run" /\ streaming) =>
        LET listing == index.conversations
            tags == UNION {{listing[k].Topics[j] : j \in DOMAIN listing[k].Topics} :
                             k \in DOMAIN listing}
            ids == {listing[k].ID : k \in DOMAIN listing}
        IN  /\ Len(listing) = Cardinality(Recorded)
            /\ \A i \in Recorded : Cardinality({k \in DOMAIN listing :
                                                   listing[k].ID = rawBatch[i].ID}) = 1
            /\ DOMAIN index.topics = tags
            /\ \A t \in tags :
                  /\ \A k \in DOMAIN listing :
                        Count(index.topics[t], listing[k].ID) = Count(listing[k].Topics, t)
                  /\ \A j \in DOMAIN index.topics[t] : index.topics[t][j] \in ids

\* C20 witness: two workers recorded conversations tagged [python] and
\* [python, web], in the reverse of the batch order; python holds both
\* identifiers and web only the second.
C20_Witness ==
    /\ pc = "run" /\ streaming /\ Len(workers) >= 2
    /\ Len(index.conversations) = 2 /\ Len(rawBatch) >= 2
    /\ index.conversations[1].ID = rawBatch[2].ID
    /\ index.conversations[2].ID = rawBatch[1].ID
    /\ index.conversations[1].Topics = <<"python">>
    /\ index.conversations[2].Topics = <<"python", "web">>
    /\ DOMAIN index.topics = {"python", "web"}
    /\ index.topics["python"] = <<index.conversations[1].ID, index.conversations[2].ID>>
    /\ index.topics["web"] = <<index.conversations[2].ID>>

\* The entries of the sequence s recorded on date d, in the order of s.
OnDate(s, d) == SelectSeq(s, LAMBDA m : m.CreatedDate = d)

\* The dates of the entries of s.
DatesOf(s) == {s[k].CreatedDate : k \in DOMAIN s}

\* C21: for a non-empty listing the timeline is a permutation of the
\* listing in non-decreasing order of creation date, its count is the
\* length of the listing, and earliest and latest are the least and the
\* greatest creation date of the listing.
C21_TimelineSorted ==
    (pc = "run" /\ mainPc = "done" /\ Len(index.conversations) > 0) =>
        LET listing == index.conversations
            sorted == timeline.conversations
        IN  /\ Len(sorted) = Len(listing)
            /\ \A m \in Range(listing) \cup Range(sorted) : Count(sorted, m) = Count(listing, m)
            /\ \A k \in 1..(Len(sorted) - 1) :
                  sorted[k].CreatedDate <= sorted[k + 1].CreatedDate
            /\ timeline.total_count = Len(listing)
            /\ timeline.earliest \in DatesOf(listing)
            /\ timeline.latest \in DatesOf(listing)
            /\ \A d \in DatesOf(listing) : timeline.earliest <= d /\ d <= timeline.latest

\* C21 witness: a listing of three conversations recorded latest first,
\* whose timeline has been generated.
C21_Witness ==
    /\ pc = "run" /\ mainPc = "done" /\ Len(index.conversations) = 3
    /\ index.conversations[1].CreatedDate > index.conversations[2].CreatedDate
    /\ index.conversations[2].CreatedDate > index.conversations[3].CreatedDate
    /\ timeline.conversations[1] = index.conversations[3]
    /\ timeline.earliest < timeline.latest

\* C22: with no conversation recorded GenerateIndexes completes without a
\* panic and the timeline holds an empty list of conversations.
C22_EmptyListingSafe ==
    (pc = "run" /\ mainPc \in {"indexes", "done"} /\ Len(index.conversations) = 0) =>
        /\ ~crashed
        /\ mainPc = "done" => (timeline.conversations = <<>> /\ timeline.total_count = 0)

\* C23: the sort of the timeline is stable: the conversations created on
\* one date appear in the timeline in the order they have in the listing.
C23_TimelineStable ==
    (pc = "run" /\ mainPc = "done" /\ Len(index.conversations) > 0) =>
        \A d \in DatesOf(index.conversations) :
            OnDate(timeline.conversations, d) = OnDate(index.conversations, d)

\* The listing a single worker leaves for the same batch and the same
\* callback results: the recorded conversations in the order of the batch.
InBatchOrder ==
    LET positions == SelectSeq([i \in DOMAIN rawBatch |-> i], LAMBDA i : outcome[i].indexed)
    IN  [k \in DOMAIN positions |->
            CHOOSE m \in Range(index.conversations) : m.ID = rawBatch[positions[k]].ID]

\* C24: the timeline written after the batch was processed by the pool is
\* the timeline that processing the batch with one worker gives: it does
\* not depend on the order in which the workers called AddConversation.
C24_TimelineIndependentOfWorkers ==
    (pc = "run" /\ streaming /\ mainPc = "done") =>
        /\ Range(index.conversations) = Range(InBatchOrder)
        /\ timeline.conversations = TimelineOuter(InBatchOrder, 1)

\* C25: when conversations.json cannot be read or decoded, Run is aborted:
\* it does not go on to generate the indexes and does not return nil.
C25_UnreadableBatchAborts ==
    (pc = "run" /\ chatgptErr = "parse error") => (timeline = Unused /\ mainPc # "done")

\* C26: at the end of a run the file at the path of every conversation of
\* the index holds that conversation: the same metadata and as many
\* messages as the record counts.
C26_FileHoldsRecord ==
    (pc = "run" /\ mainPc = "done") =>
        \A k \in DOMAIN index.conversations :
            LET m == index.conversations[k]
            IN  /\ m.FilePath \in DOMAIN files
                /\ files[m.FilePath].Metadata = m
                /\ Len(files[m.FilePath].Messages) = m.MessageCount

\* The message of node c was appended by the traversal before that of k.
AppendedBefore(c, k) ==
    /\ Cardinality(PositionsOf(conv.traversal, c)) = 1
    /\ Cardinality(PositionsOf(conv.traversal, k)) = 1
    /\ PositionOf(conv.traversal, c) < PositionOf(conv.traversal, k)

\* C27: the traversal is children-first. Every child of a visited node is
\* visited, whether or not the node carries a message; the message of a
\* child that does not lead back to the node is appended before the
\* node's own; and in a valid forest the message of every descendant of a
\* node is appended before the node's own, also through nodes without a
\* message.
C27_ChildrenFirst ==
    Converted =>
        LET mapping == chatgpt.Mapping
            withMessage == MessageNodes(mapping)
        IN  /\ \A k \in conv.visited \cap DOMAIN mapping :
                  \A c \in Range(mapping[k].Children) :
                      /\ c \in conv.visited
                      /\ (c \in withMessage) => Cardinality(PositionsOf(conv.traversal, c)) = 1
                      /\ (c \in withMessage /\ k \in withMessage /\ c # k
                             /\ k \notin Reachable(mapping, c)) => AppendedBefore(c, k)
            /\ ValidForest(mapping) =>
                  \A k \in withMessage :
                      \A d \in (Reachable(mapping, k) \ {k}) \cap withMessage :
                          AppendedBefore(d, k)

\* C27 witness: a root with a message, its child without one and that
\* child's child with a message; the grandchild's message was appended
\* first.
C27_Witness ==
    /\ Converted
    /\ ValidForest(chatgpt.Mapping)
    /\ \E k, c, d \in DOMAIN chatgpt.Mapping :
          /\ chatgpt.Mapping[k].Parent = ""
          /\ chatgpt.Mapping[k].Children = <<c>>
          /\ chatgpt.Mapping[c].Children = <<d>>
          /\ chatgpt.Mapping[c].Message = NoMessage
          /\ {k, d} \subseteq MessageNodes(chatgpt.Mapping)
          /\ Len(conv.traversal) = 2
          /\ conv.traversal[1].ID = d
          /\ conv.traversal[2].ID = k

\* C28: the message sequence returned for a conversation is the same for
\* every order in which the range loops may enumerate the mapping.
C28_OrderIndependent ==
    Converted =>
        \A order1 \in RangeOrders(DOMAIN chatgpt.Mapping) :
            \A order2 \in (IF RootNodes(chatgpt.Mapping) = {} /\ chatgpt.CurrentNode = ""
                            THEN RangeOrders(DOMAIN chatgpt.Mapping) ELSE {order1}) :
                ConvertChatGPTToStandard(chatgpt, order1, order2).Messages = conv.Messages

\* Run is at or past the call of GenerateIndexes.
Materializing == pc = "run" /\ streaming /\ mainPc \in {"indexes", "done"}

\* C29: when Run reaches GenerateIndexes the ChatGPT pass has returned,
\* every worker has exited, no callback is running and the indexer's lock
\* is free; from then on no step changes the listing or the topic map, so
\* the timeline is computed from the final listing.
C29_IndexesAfterWorkers ==
    /\ [](Materializing =>
            /\ chatgptErr # "pending"
            /\ \A w \in DOMAIN workers : workers[w].pc = "exit"
            /\ mutex = 0
            /\ chatgptErr = NoError => \A i \in DOMAIN rawBatch : outcome[i].results = 1
            /\ mainPc = "done" => Len(timeline.conversations) = Len(index.conversations))
    /\ [][Materializing => index' = index]_vars

\* C29 witness: the indexes were generated after a pool of two workers
\* recorded two conversations.
C29_Witness ==
    /\ Materializing /\ mainPc = "done"
    /\ Len(workers) >= 2
    /\ \A w \in DOMAIN workers : workers[w].job > 0
    /\ Len(index.conversations) = 2
    /\ timeline.total_count = 2

\* The messages of the records of S, as their callbacks counted them.
RECURSIVE SumMessages(_)
SumMessages(S) ==
    IF S = {} THEN 0
    ELSE LET i == CHOOSE x \in S : TRUE
         IN  outcome[i].messageCount + SumMessages(S \ {i})

\* C30: after processChatGPTConversations has returned, ConversationCount
\* is the number of conversations whose callback succeeded and added them
\* to the index, and MessageCount is the sum of their message counts.
C30_StatsCountCallbacks ==
    (Materializing /\ chatgptErr = NoError) =>
        /\ stats.chatgpt.ConversationCount = Cardinality(Recorded)
        /\ stats.chatgpt.MessageCount = SumMessages(Recorded)

====
